---- MODULE Spec2Model ----
(***************************************************************************)
(* A model of texttable.c (kzachmann/texttable): the table (a doubly       *)
(* linked list of entries plus eight configuration fields) and the four    *)
(* interface functions TextTableInit, TextTableAdd, TextTablePrint and     *)
(* TextTableFree.                                                          *)
(*                                                                         *)
(* C strings are sequences of one-character strings that end with NUL; a   *)
(* NULL char pointer is the empty sequence (no storage).  An entry pointer *)
(* is an index into heap, NULL being 0.  A pointer into an entry's text    *)
(* (writeTxt) is an index into that text, NULL being 0.                    *)
(***************************************************************************)
EXTENDS Integers, Sequences, FiniteSets

VARIABLES head, tail, entries, heap, cfg, call, out

vars == <<head, tail, entries, heap, cfg, call, out>>

----------------------------------------------------------------------------
(* Bounds of the model *)

MaxEntries == 3

----------------------------------------------------------------------------
(* Program constants *)

TEXT_TABLE_MAX_COLUMN_LEN == 96
TEXT_TABLE_MAX_X_POS == 30
TEXT_TABLE_MAX_ANSI_SEQ_LEN == 24

NULL == 0
NULLP == <<>>
NUL == "NUL"
NL == "\n"
ESC == "ESC"
SP == " "

sAnsiSequenceEnd == <<ESC, "[", "0", "m">>

TABSTYLE_REGULAR_HEAD_ON == "REGULAR_HEAD_ON"
TABSTYLE_REGULAR_HEAD_OFF == "REGULAR_HEAD_OFF"
TABSTYLE_SEPARATED_HEAD_ON == "SEPARATED_HEAD_ON"
TABSTYLE_SEPARATED_HEAD_OFF == "SEPARATED_HEAD_OFF"
TABSTYLE_COMACT == "COMACT"

TabStyle_e == {TABSTYLE_REGULAR_HEAD_ON, TABSTYLE_REGULAR_HEAD_OFF,
               TABSTYLE_SEPARATED_HEAD_ON, TABSTYLE_SEPARATED_HEAD_OFF,
               TABSTYLE_COMACT}

----------------------------------------------------------------------------
(* Helpers for C strings *)

Min(a, b) == IF a < b THEN a ELSE b
Max(a, b) == IF a > b THEN a ELSE b

Rep(c, n) == [i \in 1..n |-> c]

Take(s, n) == SubSeq(s, 1, Min(n, Len(s)))

\* a string literal: the characters and the terminating NUL
CStr(s) == s \o <<NUL>>

\* the number of characters from buf[i] up to the first NUL
strlenFrom(buf, i) ==
  CHOOSE n \in 0..(Len(buf) - i) :
    buf[i + n] = NUL /\ \A k \in 0..(n - 1) : buf[i + k] # NUL

strlen(buf) == strlenFrom(buf, 1)

\* the characters a reader of the NUL-terminated buffer sees
Chars(buf) == SubSeq(buf, 1, strlen(buf))

----------------------------------------------------------------------------
(* The table *)

DefaultConfig ==
  [charGridX |-> "-", charGridBoundary |-> "|", charGridSeparator |-> "|",
   charHeadX |-> "=", charHeadBoundary |-> "|", charHeadSeparator |-> "|",
   charConnectorXY |-> "+", spacesBetweenBorder |-> 1]

\* memset(pEntry, 0, sizeof(TextTableEntry_t))
ZeroEntry ==
  [nextEntry |-> NULL, prevEntry |-> NULL, text |-> NULLP, textLen |-> 0,
   rowMaxTextLen |-> 0, ansiSeq |-> NULLP, ansiSeqLen |-> 0, writeTxt |-> NULL]

\* no call has returned since the caller last went on
NoCall == [op |-> "none"]

Init ==
  /\ head = NULL
  /\ tail = NULL
  /\ entries = 0
  /\ heap = <<>>
  /\ cfg = DefaultConfig
  /\ call = NoCall
  /\ out = <<>>

----------------------------------------------------------------------------
(* TextTableInit *)

\* Entries still linked when the table is initialized again are leaked: no
\* pointer to them remains, so they leave the modelled heap.
TextTableInit(tableNull) ==
  /\ IF tableNull
       THEN UNCHANGED <<head, tail, entries, heap, cfg>>
       ELSE /\ head' = NULL
            /\ tail' = NULL
            /\ entries' = 0
            /\ heap' = <<>>
            /\ cfg' = DefaultConfig
  /\ call' = [op |-> "Init", tableNull |-> tableNull, ret |-> ~tableNull]
  /\ out' = <<>>

----------------------------------------------------------------------------
(* TextTableAdd *)

\* vsnprintf of a format without conversion directives into a buffer of
\* size bytes: at most size - 1 characters and the terminating NUL
vsnprintf(size, format) == Take(Chars(format), size - 1) \o <<NUL>>

\* the body of the loop "calculate the maximum length column row" for the
\* character text[i]
RowMaxStep(text, i, st) ==
  IF text[i] = NL
    THEN [rowMaxTextLen |-> Max(st.rowMaxTextLen, st.rowTextLen), rowTextLen |-> 0]
    ELSE [st EXCEPT !.rowTextLen = @ + 1]

\* the iterations lo..hi of that loop in their order: those of the first
\* half, then those of the second half, which start from the counters the
\* first half has left (rowTextLen counts characters of text, so it is
\* never above hi)
RECURSIVE RowMaxLoop(_, _, _, _)
RowMaxLoop(text, lo, hi, st) ==
  IF lo > hi THEN st
  ELSE IF lo = hi THEN RowMaxStep(text, lo, st)
  ELSE LET half == RowMaxLoop(text, lo, (lo + hi) \div 2, st)
       IN IF half.rowTextLen <= hi
            THEN RowMaxLoop(text, ((lo + hi) \div 2) + 1, hi, half)
            ELSE half

\* pEntry->rowMaxTextLen = 1, rowTextLen = 0, the loop, and the check after it
RowMaxTextLen(text, textLen) ==
  LET st == RowMaxLoop(text, 1, textLen, [rowMaxTextLen |-> 1, rowTextLen |-> 0])
  IN Max(st.rowMaxTextLen, st.rowTextLen)

\* TEXT_TABLE_MAX_ANSI_SEQ_LEN > pEntry->ansiSeqLen
AnsiSeqFits(ansiSeqLen) == TEXT_TABLE_MAX_ANSI_SEQ_LEN > ansiSeqLen

\* malloc(pEntry->ansiSeqLen + 1) is reached: ansiSeq is given and fits
AnsiSeqAllocated(ansiSeq) == ansiSeq # NULLP /\ AnsiSeqFits(strlen(ansiSeq))

\* the ansiSeq part of TextTableAdd, applied to the new entry e.  The result
\* of malloc is not checked: when it is NULL (failed), snprintf writes
\* through the NULL pointer, and the entry keeps ansiSeq = NULL with the
\* length already stored
AddAnsiSeq(e, ansiSeq, failed) ==
  IF ansiSeq = NULLP
    THEN e
    ELSE IF AnsiSeqFits(strlen(ansiSeq))
           THEN [e EXCEPT !.ansiSeqLen = strlen(ansiSeq),
                          !.ansiSeq = IF failed THEN NULLP
                                      ELSE vsnprintf(strlen(ansiSeq) + 1, ansiSeq)]
           ELSE [e EXCEPT !.ansiSeqLen = 0]

CapTextLen_Below(textLen) ==
  IF TEXT_TABLE_MAX_COLUMN_LEN <= textLen THEN TEXT_TABLE_MAX_COLUMN_LEN - 1 ELSE textLen

\* TEXT_TABLE_MAX_COLUMN_LEN < pEntry->textLen
CapTextLen(textLen) ==
  IF TEXT_TABLE_MAX_COLUMN_LEN < textLen THEN TEXT_TABLE_MAX_COLUMN_LEN ELSE textLen

\* the text part of TextTableAdd, after the text buffer was allocated
AddText(e, format) ==
  LET len == CapTextLen(e.textLen)
      text == vsnprintf(len + 1, format)
  IN [e EXCEPT !.textLen = len, !.text = text,
               !.rowMaxTextLen = RowMaxTextLen(text, len)]

NewEntry_PrevNotSet(prev, ansiSeq, format, failAt, crashed) ==
  LET textLen == IF format = NULLP THEN 0 ELSE strlen(format)
  IN IF format = NULLP \/ ~(textLen > 0)
       THEN ZeroEntry
       ELSE LET e1 == AddAnsiSeq([ZeroEntry EXCEPT !.textLen = textLen], ansiSeq,
                                 failAt = "ansiSeq")
            IN IF crashed
                 THEN e1
                 ELSE IF failAt = "text"
                        THEN [e1 EXCEPT !.textLen = 0]
                        ELSE AddText(e1, format)

\* the new entry as TextTableAdd leaves it; failAt names the allocation
\* that returns NULL ("none", "entry", "ansiSeq", "text"); crashed says that
\* the write through a NULL pointer ended the process at that point
NewEntry(prev, ansiSeq, format, failAt, crashed) ==
  LET e0 == [ZeroEntry EXCEPT !.prevEntry = prev]
      textLen == IF format = NULLP THEN 0 ELSE strlen(format)
  IN IF format = NULLP \/ ~(textLen > 0)
       THEN e0
       ELSE LET e1 == AddAnsiSeq([e0 EXCEPT !.textLen = textLen], ansiSeq,
                                 failAt = "ansiSeq")
            IN IF crashed
                 THEN e1
                 ELSE IF failAt = "text"
                        THEN [e1 EXCEPT !.textLen = 0]
                        ELSE AddText(e1, format)

\* snprintf(pEntry->ansiSeq, ...) is called with pEntry->ansiSeq == NULL
WritesThroughNull(tableNull, ansiSeq, format, failAt) ==
  /\ ~tableNull
  /\ failAt = "ansiSeq"
  /\ format # NULLP /\ strlen(format) > 0
  /\ AnsiSeqAllocated(ansiSeq)

AddReturns_FormatRequired(tableNull, ansiSeq, format, failAt) ==
  ~tableNull /\ failAt = "none" /\ format # NULLP

AddReturns(tableNull, ansiSeq, format, failAt) ==
  IF tableNull \/ failAt = "entry"
    THEN FALSE
    ELSE IF format # NULLP /\ strlen(format) > 0 /\ failAt = "text"
           THEN FALSE
           ELSE TRUE

\* Writing through a NULL pointer is undefined: the process is ended at the
\* write (crashed), or the write goes unnoticed and the call goes on.  A
\* crashed call returns nothing; ret is then FALSE by convention.
TextTableAdd(tableNull, ansiSeq, format, failAt) ==
  /\ Len(heap) < MaxEntries
  /\ \E crashed \in (IF WritesThroughNull(tableNull, ansiSeq, format, failAt)
                        THEN BOOLEAN ELSE {FALSE}) :
       /\ IF tableNull \/ failAt = "entry"
            THEN UNCHANGED <<head, tail, entries, heap>>
            ELSE LET pEntry == Len(heap) + 1
                     linked == IF head = NULL
                                 THEN heap
                                 ELSE [heap EXCEPT ![tail].nextEntry = pEntry]
                 IN /\ head' = IF head = NULL THEN pEntry ELSE head
                    /\ heap' = Append(linked,
                                      NewEntry(IF head = NULL THEN NULL ELSE tail,
                                               ansiSeq, format, failAt, crashed))
                    /\ tail' = pEntry
                    /\ entries' = entries + 1
       /\ call' = [op |-> "Add", tableNull |-> tableNull, ansiSeq |-> ansiSeq,
                   format |-> format, failAt |-> failAt, crashed |-> crashed,
                   ret |-> ~crashed /\ AddReturns(tableNull, ansiSeq, format, failAt)]
  /\ out' = <<>>
  /\ UNCHANGED cfg

----------------------------------------------------------------------------
(* TextTableFree *)

RECURSIVE FreeLoop_KeepsAnsiSeq(_, _)
FreeLoop_KeepsAnsiSeq(hp, pEntry) ==
  IF pEntry = NULL
    THEN <<>>
    ELSE (IF hp[pEntry].text # NULLP THEN <<[block |-> "text", of |-> pEntry]>> ELSE <<>>)
         \o <<[block |-> "entry", of |-> pEntry]>>
         \o FreeLoop_KeepsAnsiSeq(hp, hp[pEntry].nextEntry)

\* the while loop: the blocks handed to free(), in the order of the calls
RECURSIVE FreeLoop(_, _)
FreeLoop(hp, pEntry) ==
  IF pEntry = NULL
    THEN <<>>
    ELSE (IF hp[pEntry].text # NULLP THEN <<[block |-> "text", of |-> pEntry]>> ELSE <<>>)
         \o (IF hp[pEntry].ansiSeq # NULLP
               THEN <<[block |-> "ansiSeq", of |-> pEntry]>> ELSE <<>>)
         \o <<[block |-> "entry", of |-> pEntry]>>
         \o FreeLoop(hp, hp[pEntry].nextEntry)

TextTableFree(tableNull) ==
  /\ IF tableNull
       THEN UNCHANGED <<head, tail, entries, heap>>
       ELSE /\ head' = NULL
            /\ tail' = NULL
            /\ entries' = 0
            /\ heap' = <<>>
  /\ call' = [op |-> "Free", tableNull |-> tableNull,
              freed |-> IF tableNull THEN <<>> ELSE FreeLoop(heap, head)]
  /\ out' = <<>>
  /\ UNCHANGED cfg

----------------------------------------------------------------------------
(* The caller writes the configuration fields of the table directly *)

SetConfig(c) ==
  /\ cfg # c
  /\ cfg' = c
  /\ UNCHANGED <<call, out>>
  /\ UNCHANGED <<head, tail, entries, heap>>

----------------------------------------------------------------------------
(* TextTablePrint: argument checks *)

PosXTooBig_GE(posX) == posX >= TEXT_TABLE_MAX_X_POS

\* posX > TEXT_TABLE_MAX_X_POS
PosXTooBig(posX) == posX > TEXT_TABLE_MAX_X_POS

\* size_t rows = table->entries / columns
RowsOf(n, columns) == n \div columns

CannotCalculateRows_Less(n, columns) == n < (n \div columns) * columns

\* table->entries != (rows * columns)
CannotCalculateRows(n, columns) == n # RowsOf(n, columns) * columns

\* the checks before the first allocation, in the order of the code
ArgsRejected(tableNull, sinkNull, posX, columns) ==
  IF tableNull THEN TRUE
  ELSE IF sinkNull THEN TRUE
  ELSE IF PosXTooBig(posX) THEN TRUE
  ELSE IF columns = 0 THEN TRUE
  ELSE IF entries = 0 THEN TRUE
  ELSE CannotCalculateRows(entries, columns)

----------------------------------------------------------------------------
(* TextTablePrint: column metrics, row length, border and header lines *)

\* T_Column after memset(pColumn, 0, ...)
ZeroColumns(columns) ==
  [j \in 0..(columns - 1) |-> [rowMaxTextLen |-> 0, ansiSeqMaxLen |-> 0]]

\* the two nested loops over rows and columns, n = i * columns + j
RECURSIVE ColumnLoop(_, _, _, _, _, _)
ColumnLoop(hp, pEntry, n, total, columns, pColumn) ==
  IF n = total
    THEN pColumn
    ELSE LET j == n % columns
             e == hp[pEntry]
             m == [rowMaxTextLen |-> Max(e.rowMaxTextLen, pColumn[j].rowMaxTextLen),
                   ansiSeqMaxLen |-> Max(e.ansiSeqLen, pColumn[j].ansiSeqMaxLen)]
         IN ColumnLoop(hp, e.nextEntry, n + 1, total, columns,
                       [pColumn EXCEPT ![j] = m])

RECURSIVE RowLenLoop(_, _, _, _)
RowLenLoop(pColumn, columns, i, spaces) ==
  IF i = columns
    THEN 0
    ELSE pColumn[i].rowMaxTextLen + (spaces * 2) + 1
         + (IF pColumn[i].ansiSeqMaxLen # 0
              THEN pColumn[i].ansiSeqMaxLen + Len(sAnsiSequenceEnd)
              ELSE 0)
         + RowLenLoop(pColumn, columns, i + 1, spaces)

\* size_t rowLen
RowLen(pColumn, columns, posX, spaces) ==
  2 + RowLenLoop(pColumn, columns, 0, spaces) + posX

RECURSIVE BorderLoop_OnePad(_, _, _, _, _, _)
BorderLoop_OnePad(pColumn, columns, i, spaces, x, connector) ==
  IF i = columns
    THEN <<>>
    ELSE Rep(x, pColumn[i].rowMaxTextLen + spaces) \o <<connector>>
         \o BorderLoop_OnePad(pColumn, columns, i + 1, spaces, x, connector)

\* the characters written into gridBuf or headBuf from index posX on
RECURSIVE BorderLoop(_, _, _, _, _, _)
BorderLoop(pColumn, columns, i, spaces, x, connector) ==
  IF i = columns
    THEN <<>>
    ELSE Rep(x, pColumn[i].rowMaxTextLen + (spaces * 2)) \o <<connector>>
         \o BorderLoop(pColumn, columns, i + 1, spaces, x, connector)

\* "create border / header": the buffer up to its NUL; the first posX
\* characters are the spaces of memset(buf, ' ', rowLen)
Border(pColumn, columns, posX, c, x) ==
  Rep(SP, posX) \o <<c.charConnectorXY>>
  \o BorderLoop(pColumn, columns, 0, c.spacesBetweenBorder, x, c.charConnectorXY)

----------------------------------------------------------------------------
(* TextTablePrint: one physical line of a row *)

HasHead(tabStyle) ==
  tabStyle \in {TABSTYLE_REGULAR_HEAD_ON, TABSTYLE_SEPARATED_HEAD_ON}

Opening_PadInCompact(c, tabStyle, i, j) ==
  IF j = 0 /\ tabStyle # TABSTYLE_COMACT
    THEN <<IF i = 0 /\ HasHead(tabStyle) THEN c.charHeadBoundary ELSE c.charGridBoundary>>
         \o Rep(SP, c.spacesBetweenBorder)
    ELSE Rep(SP, c.spacesBetweenBorder)

\* the characters written before the text of column j in row i
Opening(c, tabStyle, i, j) ==
  IF j = 0
    THEN IF i = 0
           THEN IF tabStyle = TABSTYLE_COMACT
                  THEN <<>>
                  ELSE IF HasHead(tabStyle)
                         THEN <<c.charHeadBoundary>> \o Rep(SP, c.spacesBetweenBorder)
                         ELSE <<c.charGridBoundary>> \o Rep(SP, c.spacesBetweenBorder)
           ELSE IF tabStyle # TABSTYLE_COMACT
                  THEN <<c.charGridBoundary>> \o Rep(SP, c.spacesBetweenBorder)
                  ELSE <<>>
    ELSE Rep(SP, c.spacesBetweenBorder)

SetWritePointer_OnlyIfNull(e, firstRowPerColumn) ==
  IF firstRowPerColumn /\ e.writeTxt = NULL
    THEN [e EXCEPT !.writeTxt = IF e.text = NULLP THEN NULL ELSE 1]
    ELSE e

\* if (firstRowPerColumn) pEntry->writeTxt = pEntry->text
\* (a pointer to the first character of text, or NULL when text is NULL)
SetWritePointer(e, firstRowPerColumn) ==
  IF firstRowPerColumn
    THEN [e EXCEPT !.writeTxt = IF e.text = NULLP THEN NULL ELSE 1]
    ELSE e

AdvanceTextPointer(e) == [e EXCEPT !.text = Tail(@)]

\* pEntry->writeTxt++
AdvanceWritePointer(e) == [e EXCEPT !.writeTxt = @ + 1]

AtSpace_NewlineIsText(e) ==
  \/ e.writeTxt = NULL
  \/ e.text[e.writeTxt] = NUL

\* (NULL == writeTxt) || (0x00 == *writeTxt) || ('\n' == *writeTxt)
AtSpace(e) ==
  \/ e.writeTxt = NULL
  \/ e.text[e.writeTxt] = NUL
  \/ e.text[e.writeTxt] = NL

\* "write column row": the loop over k; e is the entry with its write
\* pointer, row the characters written so far
RECURSIVE ColumnRowLoop(_, _, _, _)
ColumnRowLoop(e, row, k, width) ==
  IF k = width
    THEN [e |-> e, row |-> row]
    ELSE LET start == IF k = 0 /\ e.ansiSeq # NULLP
                        THEN row \o SubSeq(e.ansiSeq, 1, e.ansiSeqLen)
                        ELSE row
         IN IF AtSpace(e)
              THEN ColumnRowLoop(e, Append(start, SP), k + 1, width)
              ELSE ColumnRowLoop(AdvanceWritePointer(e),
                                 Append(start, e.text[e.writeTxt]), k + 1, width)

\* "ansi sequence end"
AnsiEnd(e) == IF e.ansiSeq # NULLP THEN sAnsiSequenceEnd ELSE <<>>

NewlineHere_CR(e) == e.writeTxt # NULL /\ e.text[e.writeTxt] = "\r"

\* "check if newline in column row"
NewlineHere(e) == e.writeTxt # NULL /\ e.text[e.writeTxt] = NL

\* the trailing spaces of column j and the character separating it from
\* the next column
Trailing(c, tabStyle, j, columns) ==
  Rep(SP, c.spacesBetweenBorder)
  \o (IF tabStyle # TABSTYLE_COMACT /\ j < columns - 1
        THEN <<c.charGridSeparator>>
        ELSE <<>>)

Closing_GridOnly(c, tabStyle, i) ==
  IF tabStyle # TABSTYLE_COMACT THEN <<c.charGridBoundary>> ELSE <<>>

\* the character closing the line of row i
Closing(c, tabStyle, i) ==
  IF i = 0
    THEN IF tabStyle = TABSTYLE_COMACT
           THEN <<>>
           ELSE IF HasHead(tabStyle)
                  THEN <<c.charHeadBoundary>>
                  ELSE <<c.charGridBoundary>>
    ELSE IF tabStyle # TABSTYLE_COMACT
           THEN <<c.charGridBoundary>>
           ELSE <<>>

\* the loop over the columns j of row i; st holds the heap, pEntry, the
\* characters written to rowBuf from index posX on, and newLine
RECURSIVE ColumnsLoop(_, _, _, _, _)
ColumnsLoop(x, st, i, j, firstRowPerColumn) ==
  IF j = x.columns
    THEN st
    ELSE LET e0 == SetWritePointer(st.hp[st.pEntry], firstRowPerColumn)
             w == ColumnRowLoop(e0, st.row \o Opening(x.c, x.tabStyle, i, j), 0,
                                x.pColumn[j].rowMaxTextLen)
             nl == NewlineHere(w.e)
             e1 == IF nl THEN AdvanceWritePointer(w.e) ELSE w.e
         IN ColumnsLoop(x,
                        [hp |-> [st.hp EXCEPT ![st.pEntry] = e1],
                         pEntry |-> e1.nextEntry,
                         row |-> w.row \o AnsiEnd(w.e)
                                 \o Trailing(x.c, x.tabStyle, j, x.columns),
                         newLine |-> st.newLine \/ nl],
                        i, j + 1, firstRowPerColumn)

\* one pass of the do-while loop up to "rowBuf[idxRow] = 0x00": rowBuf as
\* the sink reads it
RowPass(x, hp, pEntrySave, i, firstRowPerColumn) ==
  LET st == ColumnsLoop(x, [hp |-> hp, pEntry |-> pEntrySave, row |-> <<>>,
                            newLine |-> FALSE], i, 0, firstRowPerColumn)
  IN [st EXCEPT !.row = Rep(SP, x.posX) \o @ \o Closing(x.c, x.tabStyle, i)]

----------------------------------------------------------------------------
(* TextTablePrint: the lines handed to PrintLineCallbackFunction *)

FirstLine_HeadOnly(tabStyle) ==
  IF HasHead(tabStyle) THEN <<"headBuf">> ELSE <<>>

\* the buffer printed before the first line of the table ("first line")
FirstLine(tabStyle) ==
  IF tabStyle = TABSTYLE_COMACT THEN <<>>
  ELSE IF HasHead(tabStyle) THEN <<"headBuf">>
  ELSE <<"gridBuf">>

AfterRow_GridAfterHead(tabStyle, i, rows) ==
  IF i < rows - 1
    THEN IF tabStyle \in {TABSTYLE_SEPARATED_HEAD_OFF, TABSTYLE_SEPARATED_HEAD_ON}
           THEN <<"gridBuf">>
           ELSE <<>>
    ELSE <<>>

\* the buffer printed after the lines of row i
AfterRow(tabStyle, i, rows) ==
  IF i = 0
    THEN IF tabStyle \in {TABSTYLE_COMACT, TABSTYLE_REGULAR_HEAD_OFF} THEN <<>>
         ELSE IF tabStyle = TABSTYLE_SEPARATED_HEAD_OFF THEN <<"gridBuf">>
         ELSE <<"headBuf">>
    ELSE IF i < rows - 1
           THEN IF tabStyle \in {TABSTYLE_SEPARATED_HEAD_OFF, TABSTYLE_SEPARATED_HEAD_ON}
                  THEN <<"gridBuf">>
                  ELSE <<>>
           ELSE <<>>

\* the buffer printed after the loop over the rows
LastLine(tabStyle) ==
  IF tabStyle # TABSTYLE_COMACT THEN <<"gridBuf">> ELSE <<>>

\* one call of the sink: the buffer passed, the string in it, and the value
\* of the row counter i at the call (rows after the loop)
Line(x, buf, i, rowBuf) ==
  [buf |-> buf, row |-> i,
   str |-> IF buf = "rowBuf" THEN rowBuf
           ELSE IF buf = "gridBuf" THEN x.gridBuf
           ELSE x.headBuf]

Lines(x, bufs, i) == [n \in 1..Len(bufs) |-> Line(x, bufs[n], i, <<>>)]

\* the do-while loop of row i
RECURSIVE DoWhile(_, _, _, _, _, _, _)
DoWhile(x, hp, pEntrySave, i, firstRowPerColumn, firstTableLine, lines) ==
  LET st == RowPass(x, hp, pEntrySave, i, firstRowPerColumn)
      printed == lines
                 \o (IF firstTableLine THEN Lines(x, FirstLine(x.tabStyle), i) ELSE <<>>)
                 \o <<Line(x, "rowBuf", i, st.row)>>
  IN IF st.newLine
       THEN DoWhile(x, st.hp, pEntrySave, i, FALSE, FALSE, printed)
       ELSE [hp |-> st.hp, pEntry |-> st.pEntry, lines |-> printed]

\* the loop over the rows and the closing line
RECURSIVE RowsLoop(_, _, _, _, _)
RowsLoop(x, hp, pEntry, i, lines) ==
  IF i = x.rows
    THEN [hp |-> hp, lines |-> lines \o Lines(x, LastLine(x.tabStyle), i)]
    ELSE LET r == DoWhile(x, hp, pEntry, i, TRUE, i = 0, lines)
         IN RowsLoop(x, r.hp, r.pEntry, i + 1,
                     r.lines \o Lines(x, AfterRow(x.tabStyle, i, x.rows), i))

\* what the call computes before "print table"
PrintContext(tabStyle, posX, columns) ==
  LET rows == RowsOf(entries, columns)
      pColumn == ColumnLoop(heap, head, 0, rows * columns, columns, ZeroColumns(columns))
  IN [tabStyle |-> tabStyle, posX |-> posX, columns |-> columns, rows |-> rows,
      pColumn |-> pColumn, c |-> cfg,
      rowLen |-> RowLen(pColumn, columns, posX, cfg.spacesBetweenBorder),
      gridBuf |-> Border(pColumn, columns, posX, cfg, cfg.charGridX),
      headBuf |-> Border(pColumn, columns, posX, cfg, cfg.charHeadX)]

\* the scratch allocations (pColumn, rowBuf, gridBuf, headBuf) that
\* succeeded before the call returns
ScratchAllocated(rejected, failAt) ==
  IF rejected THEN 0 ELSE IF failAt = 0 THEN 4 ELSE failAt - 1

\* the scratch allocations released before the call returns: the four
\* free() calls stand only before the final "return true"
ScratchFreed(rejected, failAt) ==
  IF rejected THEN 0 ELSE IF failAt = 0 THEN 4 ELSE 0

\* the highest index written into a buffer that holds the string str: the
\* index of its terminating NUL
LastIndex(str) == Len(str)

\* the highest index written into rowBuf, gridBuf or headBuf during the call
HighestWritten(x, lines) ==
  LET written == {LastIndex(x.gridBuf), LastIndex(x.headBuf)}
                 \cup {LastIndex(lines[n].str) : n \in 1..Len(lines)}
  IN CHOOSE w \in written : \A v \in written : v <= w

\* a write at an index that is not below the allocated size rowLen
WritesBeyond(x, lines) == HighestWritten(x, lines) >= x.rowLen

\* the lines the sink has received when the process is ended at the first
\* write beyond rowBuf: those of the passes before the one that overruns
\* (the line before the first table line is printed after rowBuf is filled)
LinesBeforeOverrun(x, lines) ==
  LET n == CHOOSE n \in 1..Len(lines) :
             /\ lines[n].buf = "rowBuf" /\ LastIndex(lines[n].str) >= x.rowLen
             /\ \A m \in 1..(n - 1) :
                  ~(lines[m].buf = "rowBuf" /\ LastIndex(lines[m].str) >= x.rowLen)
  IN IF \E m \in 1..(n - 1) : lines[m].buf = "rowBuf"
       THEN SubSeq(lines, 1, n - 1)
       ELSE <<>>

\* A write beyond the allocated buffer is undefined: it goes unnoticed, or
\* the process is ended at the write, or it is ended when the damaged heap
\* is used by free()
Outcomes(overrun) ==
  IF overrun THEN {"unnoticed", "endedAtWrite", "endedAtFree"} ELSE {"defined"}

\* failAt is the allocation that returns NULL: 0 none, 1 pColumn, 2 rowBuf,
\* 3 gridBuf, 4 headBuf; scratch is the number of scratch allocations still
\* live when the call returns; rowLen is the size of the three buffers and
\* written the highest index written into one of them (both 0 when the
\* buffers were not allocated).  A crashed call returns nothing; ret is then
\* FALSE by convention.  x and r are the values computed once per call.
TextTablePrint(tableNull, sinkNull, tabStyle, posX, columns, failAt) ==
  IF ArgsRejected(tableNull, sinkNull, posX, columns) \/ failAt # 0
    THEN /\ call' = [op |-> "Print", tableNull |-> tableNull, sinkNull |-> sinkNull,
                     tabStyle |-> tabStyle, posX |-> posX, columns |-> columns,
                     failAt |-> failAt,
                     scratch |-> ScratchAllocated(ArgsRejected(tableNull, sinkNull, posX, columns), failAt)
                                 - ScratchFreed(ArgsRejected(tableNull, sinkNull, posX, columns), failAt),
                     rowLen |-> 0, written |-> 0, crashed |-> FALSE,
                     ret |-> FALSE]
         /\ out' = <<>>
         /\ UNCHANGED <<head, tail, entries, heap, cfg>>
    ELSE \E x \in {PrintContext(tabStyle, posX, columns)} :
         \E r \in {RowsLoop(x, heap, head, 0, <<>>)} :
         \E outcome \in Outcomes(WritesBeyond(x, r.lines)) :
              /\ call' = [op |-> "Print", tableNull |-> tableNull, sinkNull |-> sinkNull,
                          tabStyle |-> tabStyle, posX |-> posX, columns |-> columns,
                          failAt |-> failAt,
                          scratch |-> ScratchAllocated(FALSE, failAt) - ScratchFreed(FALSE, failAt),
                          rowLen |-> x.rowLen, written |-> HighestWritten(x, r.lines),
                          crashed |-> outcome \in {"endedAtWrite", "endedAtFree"},
                          ret |-> outcome \in {"defined", "unnoticed"}]
              /\ out' = IF outcome = "endedAtWrite"
                          THEN LinesBeforeOverrun(x, r.lines)
                          ELSE r.lines
              /\ heap' = r.hp
              /\ UNCHANGED <<head, tail, entries, cfg>>

----------------------------------------------------------------------------
(* The calls a caller makes *)

\* an ANSI sequence of n characters, as a C string
AnsiSeqOfLen(n) ==
  CStr([k \in 1..n |-> IF k = 1 THEN ESC ELSE IF k = 2 THEN "[" ELSE IF k = n THEN "m" ELSE "4"])

AnsiSeqs ==
  {NULLP, AnsiSeqOfLen(TEXT_TABLE_MAX_ANSI_SEQ_LEN - 1),
   AnsiSeqOfLen(TEXT_TABLE_MAX_ANSI_SEQ_LEN), AnsiSeqOfLen(TEXT_TABLE_MAX_ANSI_SEQ_LEN + 1)}

\* a text of n characters without newline, as a C string
TextOfLen(n) == CStr([k \in 1..n |-> IF k = n THEN "z" ELSE "x"])

Formats ==
  {NULLP, CStr(<<>>), CStr(<<"a">>), CStr(<<"a", NL, "b", "b", NL, "c", "c", "c">>), CStr(<<NL>>)}

\* the allocation of TextTableAdd that fails
AddFailures == {"none", "entry", "ansiSeq", "text"}

\* the pairs (ansiSeq, format) passed to TextTableAdd
AddCalls ==
  ({NULLP} \X Formats) \cup (AnsiSeqs \X {NULLP, CStr(<<"a">>)})
  \cup {<<AnsiSeqOfLen(0), CStr(<<"a">>)>>}

CustomConfig ==
  [charGridX |-> "~", charGridBoundary |-> "!", charGridSeparator |-> ":",
   charHeadX |-> "#", charHeadBoundary |-> "H", charHeadSeparator |-> "S",
   charConnectorXY |-> "*", spacesBetweenBorder |-> 0]

Configs == {DefaultConfig, CustomConfig}

PosXs == {0, 1, TEXT_TABLE_MAX_X_POS, TEXT_TABLE_MAX_X_POS + 1}

ColumnCounts == 0..MaxEntries

\* the arguments passed to TextTablePrint: every style, posX and column
\* count with both references given and no allocation failing; a NULL
\* reference or a failing allocation with every style
PrintCalls ==
  [tableNull : {FALSE}, sinkNull : {FALSE}, tabStyle : TabStyle_e,
   posX : PosXs, columns : ColumnCounts, failAt : {0}]
  \cup
  [tableNull : BOOLEAN, sinkNull : BOOLEAN, tabStyle : TabStyle_e,
   posX : {0}, columns : {1}, failAt : 0..4]

\* the caller has looked at the return value and the printed lines of the
\* last call and goes on to its next call
CallerContinues ==
  /\ call # NoCall
  /\ ~(call.op \in {"Add", "Print"} /\ call.crashed)
  /\ call' = NoCall
  /\ out' = <<>>
  /\ UNCHANGED <<head, tail, entries, heap, cfg>>

Next ==
  \/ /\ call = NoCall
     /\ \E tableNull \in BOOLEAN : TextTableInit(tableNull)
  \/ /\ call = NoCall
     /\ \E tableNull \in BOOLEAN, a \in AddCalls, failAt \in AddFailures :
          TextTableAdd(tableNull, a[1], a[2], failAt)
  \/ /\ call = NoCall
     /\ \E p \in PrintCalls :
          TextTablePrint(p.tableNull, p.sinkNull, p.tabStyle, p.posX, p.columns, p.failAt)
  \/ /\ call = NoCall
     /\ \E tableNull \in BOOLEAN : TextTableFree(tableNull)
  \/ /\ call = NoCall
     /\ \E c \in Configs : SetConfig(c)
  \/ CallerContinues

Spec == Init /\ [][Next]_vars

----------------------------------------------------------------------------------------------------------------------------------------------------
(* The calls of a caller that fills tables with long texts and never prints *)

\* texts around TEXT_TABLE_MAX_COLUMN_LEN characters: without newline, and
\* with a newline as last character kept or first character cut
LongFormats ==
  {TextOfLen(TEXT_TABLE_MAX_COLUMN_LEN - 1), TextOfLen(TEXT_TABLE_MAX_COLUMN_LEN),
   TextOfLen(TEXT_TABLE_MAX_COLUMN_LEN + 1),
   CStr(Chars(TextOfLen(TEXT_TABLE_MAX_COLUMN_LEN - 1)) \o <<NL, "y", "y">>),
   CStr(Chars(TextOfLen(TEXT_TABLE_MAX_COLUMN_LEN)) \o <<NL, "y">>)}

AddLongCalls ==
  AddCalls \cup ({NULLP, AnsiSeqOfLen(TEXT_TABLE_MAX_ANSI_SEQ_LEN - 1)} \X LongFormats)

AddNext ==
  \/ /\ call = NoCall
     /\ \E tableNull \in BOOLEAN : TextTableInit(tableNull)
  \/ /\ call = NoCall
     /\ \E tableNull \in BOOLEAN, a \in AddLongCalls, failAt \in AddFailures :
          TextTableAdd(tableNull, a[1], a[2], failAt)
  \/ /\ call = NoCall
     /\ \E tableNull \in BOOLEAN : TextTableFree(tableNull)
  \/ CallerContinues

AddSpec == Init /\ [][AddNext]_vars

----
(* Vocabulary of the properties *)

\* a TextTablePrint call has returned to its caller
PrintReturned == call.op = "Print" /\ ~call.crashed

PrintSucceeded == call.op = "Print" /\ call.ret

\* the entry at flat index n (from 0), following nextEntry from head
RECURSIVE Walk(_, _)
Walk(pEntry, n) == IF n = 0 THEN pEntry ELSE Walk(heap[pEntry].nextEntry, n - 1)

Cell(n) == heap[Walk(head, n)]

IsDivider(l) == l.buf # "rowBuf"

IsContent(l) == l.buf = "rowBuf"

----------------------------------------------------------------------------
(* C1 *)

\* C1: TextTablePrint returns false and calls the sink zero times whenever
\* the table is NULL, the sink is NULL, posX > 30, columns = 0, the table
\* has no entries, or the entry count is not a multiple of columns; in each
\* style and after any sequence of earlier calls.
C1_PrintRejects ==
  (/\ PrintReturned
   /\ \/ call.tableNull
      \/ call.sinkNull
      \/ call.posX > 30
      \/ call.columns = 0
      \/ entries = 0
      \/ entries % call.columns # 0)
  => (call.ret = FALSE /\ Len(out) = 0)

\* three entries printed with two columns, after an earlier Print succeeded
C1_Witness ==
  /\ PrintReturned
  /\ ~call.tableNull /\ ~call.sinkNull /\ call.posX <= 30
  /\ entries = 3 /\ call.columns = 2
  /\ call.ret = FALSE /\ Len(out) = 0
  /\ heap[1].writeTxt # NULL

----------------------------------------------------------------------------
(* C2 *)

----------------------------------------------------------------------------
(* C3 *)

\* the heaps that differ from heap only in the write pointers, each being
\* NULL or wherever an earlier Print left it (at the end of the text)
CursorVariants ==
  {[a \in 1..Len(heap) |->
      [heap[a] EXCEPT !.writeTxt = IF a \in S THEN Len(heap[a].text) ELSE NULL]] :
   S \in SUBSET (1..Len(heap))}

\* the lines a Print with the arguments of the last call delivers from hp
PrintedFrom(hp) ==
  RowsLoop(PrintContext(call.tabStyle, call.posX, call.columns), hp, head, 0, <<>>).lines

\* C3: the lines TextTablePrint delivers are a function only of the stored
\* cells, the configuration and the arguments: a Print with the same
\* arguments on the unmodified table delivers the same lines again, whatever
\* write pointers the Print calls before or in between have left behind.
C3_SamePrintSameLines ==
  PrintSucceeded => \A hp \in CursorVariants \cup {heap} : PrintedFrom(hp) = out

\* a table with a three-line cell beside single-line cells, printed
C3_Witness ==
  /\ PrintSucceeded
  /\ entries = 3 /\ call.columns = 3
  /\ \E a \in 1..Len(heap) : heap[a].textLen = 8
  /\ \E a \in 1..Len(heap) : heap[a].textLen = 1
  /\ Len(out) >= 3

----------------------------------------------------------------------------
(* C4 *)

\* what TextTableAdd stored in the entries: every field but the write pointer
Stored(hp) == [a \in 1..Len(hp) |-> [hp[a] EXCEPT !.writeTxt = NULL]]

\* C4: TextTablePrint, returning true or false, leaves unchanged the entry
\* count, the order of the cells, every cell's text, length, rowMaxTextLen
\* and ANSI sequence, and the eight configuration fields; it changes at most
\* the write pointers.
C4_PrintKeepsTable ==
  [][call'.op = "Print" /\ call.op = "none"
       => /\ entries' = entries /\ head' = head /\ tail' = tail
          /\ cfg' = cfg
          /\ Stored(heap') = Stored(heap)]_vars

\* a Print that succeeded and moved a write pointer
C4_Witness ==
  /\ PrintSucceeded
  /\ entries = 2
  /\ heap[1].writeTxt = 9 /\ heap[2].writeTxt = 2

----------------------------------------------------------------------------
(* The order of divider and content lines *)

G == <<"gridBuf", 0>>
H == <<"headBuf", 0>>
R(i) == <<"rowBuf", i>>

\* the lines of out with the physical lines of one row collapsed into one
RECURSIVE ShapeFrom(_, _)
ShapeFrom(ls, n) ==
  IF n > Len(ls) THEN <<>>
  ELSE IF IsDivider(ls[n])
         THEN <<<<ls[n].buf, 0>>>> \o ShapeFrom(ls, n + 1)
  ELSE IF n > 1 /\ IsContent(ls[n - 1]) /\ ls[n - 1].row = ls[n].row
         THEN ShapeFrom(ls, n + 1)
  ELSE <<R(ls[n].row)>> \o ShapeFrom(ls, n + 1)

Shape == ShapeFrom(out, 1)

\* rows i .. rows - 1, with the dividers sep between two of them
RECURSIVE RowsFrom(_, _, _)
RowsFrom(i, rows, sep) ==
  IF i >= rows THEN <<>>
  ELSE <<R(i)>> \o (IF i < rows - 1 THEN sep ELSE <<>>) \o RowsFrom(i + 1, rows, sep)

\* a divider line holds, after posX spaces, only the connector and x
BuiltFrom(l, x) ==
  /\ Len(l.str) > call.posX
  /\ \A k \in 1..Len(l.str) :
       IF k <= call.posX THEN l.str[k] = SP
       ELSE l.str[k] \in {cfg.charConnectorXY, x}

DividersWellBuilt ==
  \A n \in 1..Len(out) :
    /\ out[n].buf = "headBuf" => BuiltFrom(out[n], cfg.charHeadX)
    /\ out[n].buf = "gridBuf" => BuiltFrom(out[n], cfg.charGridX)

LastRows == RowsOf(entries, call.columns)

----------------------------------------------------------------------------
(* C5 *)

\* C5: in the two header styles a successful Print delivers a header divider
\* (built from charHeadX) first, the lines of row 0, a header divider, then
\* the later rows with no divider between them (bordered+header) or exactly
\* one regular divider (built from charGridX) between two consecutive ones
\* (separated+header), and a regular divider last; no other dividers.
C5_HeaderStyleDividers ==
  (PrintSucceeded /\ HasHead(call.tabStyle))
  => /\ Shape = <<H, R(0), H>>
                \o RowsFrom(1, LastRows,
                            IF call.tabStyle = TABSTYLE_SEPARATED_HEAD_ON
                              THEN <<G>> ELSE <<>>)
                \o <<G>>
     /\ DividersWellBuilt

\* separated+header, three rows, the first of them three lines high
C5_Witness ==
  /\ PrintSucceeded
  /\ call.tabStyle = TABSTYLE_SEPARATED_HEAD_ON
  /\ entries = 3 /\ call.columns = 1
  /\ heap[1].textLen = 8
  /\ Shape = <<H, R(0), H, R(1), G, R(2), G>>
  /\ Len(out) = 9

----------------------------------------------------------------------------
(* C6 *)

\* C6 as claimed: in the two styles without header no divider precedes the
\* first content line; bordered-no-header delivers exactly one divider, after
\* the last row; separated-no-header delivers regular dividers after row 0,
\* between later rows and after the last row only.
C6_NoDividerBeforeRow0 ==
  (PrintSucceeded /\ call.tabStyle \in {TABSTYLE_REGULAR_HEAD_OFF,
                                       TABSTYLE_SEPARATED_HEAD_OFF})
  => Shape = (IF call.tabStyle = TABSTYLE_SEPARATED_HEAD_OFF
                THEN <<R(0), G>> \o RowsFrom(1, LastRows, <<G>>)
                ELSE RowsFrom(0, LastRows, <<>>))
             \o <<G>>

\* C6 amended: in the two styles without header a successful Print delivers
\* one regular divider (built from charGridX) before the first content line
\* of row 0.  Bordered-no-header delivers exactly two dividers, that one and
\* one regular divider after the last row.  Separated-no-header delivers
\* regular dividers before row 0, after row 0, between all later rows and
\* after the last row, and nowhere else.
C6_NoHeaderStyleDividers ==
  (PrintSucceeded /\ call.tabStyle \in {TABSTYLE_REGULAR_HEAD_OFF,
                                       TABSTYLE_SEPARATED_HEAD_OFF})
  => /\ Shape = <<G>>
                \o (IF call.tabStyle = TABSTYLE_SEPARATED_HEAD_OFF
                      THEN <<R(0), G>> \o RowsFrom(1, LastRows, <<G>>)
                      ELSE RowsFrom(0, LastRows, <<>>))
                \o <<G>>
     /\ DividersWellBuilt

\* bordered-no-header, three rows: two dividers
C6_Witness ==
  /\ PrintSucceeded
  /\ call.tabStyle = TABSTYLE_REGULAR_HEAD_OFF
  /\ entries = 3 /\ call.columns = 1
  /\ Shape = <<G, R(0), R(1), R(2), G>>
  /\ Cardinality({n \in 1..Len(out) : IsDivider(out[n])}) = 2

----------------------------------------------------------------------------
(* The stored cells, as the properties speak of them *)

\* the characters of a cell's stored content (none when there is no text)
StoredText(e) == IF e.text = NULLP THEN <<>> ELSE Chars(e.text)

Newlines(t) == Cardinality({k \in 1..Len(t) : t[k] = NL})

\* the newline-delimited segments of t
RECURSIVE Split(_)
Split(t) ==
  IF Newlines(t) = 0
    THEN <<t>>
    ELSE LET k == CHOOSE k \in 1..Len(t) :
                    t[k] = NL /\ \A m \in 1..(k - 1) : t[m] # NL
         IN <<SubSeq(t, 1, k - 1)>> \o Split(SubSeq(t, k + 1, Len(t)))

MaxOf(S) == CHOOSE m \in S : \A k \in S : k <= m

\* the cell of row i and column j in a table printed with the column count
\* of the last call
CellOf(i, j) == Cell(i * call.columns + j)

ColumnsOf == 0..(call.columns - 1)

RowsRange == 0..(LastRows - 1)

\* w_j: the largest rowMaxTextLen in column j
W(j) == MaxOf({CellOf(i, j).rowMaxTextLen : i \in RowsRange})

Pad == cfg.spacesBetweenBorder

\* the physical lines of row i among the delivered lines
LinesOfRow(i) == {n \in 1..Len(out) : IsContent(out[n]) /\ out[n].row = i}

\* the position (from 0) of content line n among the lines of its row
SubRow(n) == Cardinality({m \in 1..(n - 1) : IsContent(out[m]) /\ out[m].row = out[n].row})

\* the content region of cell e on sub-row s of a column w wide
Region(e, s, w) ==
  LET segs == Split(StoredText(e))
      seg == IF s < Len(segs) THEN segs[s + 1] ELSE <<>>
  IN seg \o Rep(SP, w - Len(seg))

\* the region between its ANSI sequence and the closing sequence (the code
\* writes the opening sequence with the first character of the region)
Styled(e, s, w) ==
  (IF e.ansiSeq # NULLP /\ w > 0 THEN Chars(e.ansiSeq) ELSE <<>>)
  \o Region(e, s, w)
  \o (IF e.ansiSeq # NULLP THEN <<ESC, "[", "0", "m">> ELSE <<>>)

----------------------------------------------------------------------------
(* C7 *)

\* columns j .. columns - 1 of a compact line; padFirst tells whether
\* padding spaces stand before the content region of column 0 too
RECURSIVE CompactFrom(_, _, _, _)
CompactFrom(i, s, j, padFirst) ==
  IF j = call.columns THEN <<>>
  ELSE Rep(SP, IF j = 0 /\ ~padFirst THEN 0 ELSE Pad)
       \o Styled(CellOf(i, j), s, W(j)) \o Rep(SP, Pad)
       \o CompactFrom(i, s, j + 1, padFirst)

OnlyContentLines == \A n \in 1..Len(out) : IsContent(out[n])

----------------------------------------------------------------------------
(* C8 *)

\* C8: in every style each row i delivers exactly as many content lines as
\* the largest number of newline-delimited segments among its cells (1 plus
\* the largest number of newline characters in a stored content); the
\* content lines of a Print are those of its rows.
C8_LinesPerRow ==
  PrintSucceeded
  => /\ \A i \in RowsRange :
          /\ Cardinality(LinesOfRow(i))
               = MaxOf({Len(Split(StoredText(CellOf(i, j)))) : j \in ColumnsOf})
          /\ Cardinality(LinesOfRow(i))
               = 1 + MaxOf({Newlines(StoredText(CellOf(i, j))) : j \in ColumnsOf})
     /\ \A n \in 1..Len(out) : IsContent(out[n]) => out[n].row \in RowsRange

\* a row holding "a\nbb\nccc" beside a one-line cell delivers three lines,
\* the next row (a newline only) two
C8_Witness ==
  /\ PrintSucceeded
  /\ entries = 3 /\ call.columns = 1
  /\ StoredText(heap[1]) = <<"a", NL, "b", "b", NL, "c", "c", "c">>
  /\ StoredText(heap[2]) = <<NL>>
  /\ Cardinality(LinesOfRow(0)) = 3
  /\ Cardinality(LinesOfRow(1)) = 2
  /\ Cardinality(LinesOfRow(2)) = 1

----------------------------------------------------------------------------
(* C9 *)

RECURSIVE SpanSum(_)
SpanSum(j) == IF j < 0 THEN 0 ELSE W(j) + 2 * Pad + 1 + SpanSum(j - 1)

NoStyledCells == \A a \in 1..Len(heap) : heap[a].ansiSeq = NULLP

\* C9: in every non-compact style, for a table with no styled cells, every
\* line of one Print (dividers and content lines) has the length
\* posX + 1 + sum over j of (w_j + 2 * pad + 1); its first posX characters
\* are spaces; the character at index posX is the connector (dividers) or a
\* boundary character (content lines); on dividers a connector ends every
\* column span.
C9_LineGeometry ==
  (PrintSucceeded /\ call.tabStyle # TABSTYLE_COMACT /\ NoStyledCells)
  => \A n \in 1..Len(out) :
       LET l == out[n].str
       IN /\ Len(l) = call.posX + 1 + SpanSum(call.columns - 1)
          /\ \A k \in 1..call.posX : l[k] = SP
          /\ IF IsDivider(out[n])
               THEN /\ l[call.posX + 1] = cfg.charConnectorXY
                    /\ \A j \in ColumnsOf :
                         l[call.posX + 1 + SpanSum(j)] = cfg.charConnectorXY
               ELSE l[call.posX + 1] \in {cfg.charGridBoundary, cfg.charHeadBoundary}

\* three unstyled columns of widths 3, 1 and 0 at posX 30 with padding 1
C9_Witness ==
  /\ PrintSucceeded /\ call.tabStyle = TABSTYLE_SEPARATED_HEAD_ON /\ NoStyledCells
  /\ entries = 3 /\ call.columns = 3 /\ call.posX = 30 /\ Pad = 1
  /\ W(0) = 3 /\ W(1) = 1 /\ W(2) = 0
  /\ \A n \in 1..Len(out) : Len(out[n].str) = 30 + 1 + 6 + 4 + 3

----------------------------------------------------------------------------
(* C10 *)

\* a TextTableAdd call has returned to its caller
AddReturned == call.op = "Add" /\ ~call.crashed

\* C10: TextTableAdd returns true for every length of the supplied ANSI
\* sequence; a sequence of up to 24 characters (TEXT_TABLE_MAX_ANSI_SEQ_LEN),
\* 24 included, is stored on the entry, and one of 25 or more characters is
\* dropped, leaving the entry without ANSI sequence.  (Stated for entries
\* that get a text, with no allocation failing.)
C10_AnsiSeqAtCapStored ==
  (/\ AddReturned
   /\ ~call.tableNull /\ call.failAt = "none"
   /\ call.ansiSeq # NULLP
   /\ call.format # NULLP /\ strlen(call.format) > 0)
  => /\ call.ret = TRUE
     /\ IF strlen(call.ansiSeq) <= 24
          THEN /\ heap[tail].ansiSeq = call.ansiSeq
               /\ heap[tail].ansiSeqLen = strlen(call.ansiSeq)
          ELSE /\ heap[tail].ansiSeq = NULLP
               /\ heap[tail].ansiSeqLen = 0

----------------------------------------------------------------------------
(* C11 *)

\* the characters of the format of the last call, without the NUL
Formatted == Chars(call.format)

\* the call of the claims about TextTableAdd: a table is given, no
\* allocation fails, and the format yields at least one character
AddedText ==
  /\ AddReturned
  /\ ~call.tableNull /\ call.failAt = "none"
  /\ call.format # NULLP /\ Len(Formatted) > 0

\* the segments a text is split into by its newlines, without recursion
\* over the text: the s-th segment lies between the s-th and the (s+1)-th
\* newline
NewlineAt(t) == {0} \cup {k \in 1..Len(t) : t[k] = NL} \cup {Len(t) + 1}

LongestSegment(t) ==
  MaxOf({b - a - 1 : <<a, b>> \in
           {p \in NewlineAt(t) \X NewlineAt(t) :
              p[1] < p[2] /\ \A k \in NewlineAt(t) : ~(p[1] < k /\ k < p[2])}})

\* C11: TextTableAdd returns true for a text of any length; a text of at
\* most 96 characters (TEXT_TABLE_MAX_COLUMN_LEN) is stored in full, one of
\* 97 or more characters as exactly its first 96 characters, and textLen and
\* rowMaxTextLen are those of the stored text.  (Stated for a given table
\* with no allocation failing.)
C11_TextCappedAt96 ==
  AddedText
  => /\ call.ret = TRUE
     /\ Chars(heap[tail].text) = Take(Formatted, 96)
     /\ heap[tail].textLen = Min(Len(Formatted), 96)
     /\ heap[tail].rowMaxTextLen = Max(1, LongestSegment(Take(Formatted, 96)))

\* a text of 96 characters was stored in full, after one of 97 characters
\* was stored as its first 96
C11_Witness ==
  /\ AddedText /\ entries = 2
  /\ Len(Formatted) = 96 /\ heap[tail].textLen = 96 /\ heap[tail].rowMaxTextLen = 96
  /\ heap[head].textLen = 96 /\ heap[head].text[96] = "x" /\ heap[head].text[97] = NUL

----------------------------------------------------------------------------
(* C12 *)

\* TextTableAdd has returned true and appended a cell
Appended == AddReturned /\ call.ret = TRUE

\* C12: every cell appended by TextTableAdd, also one whose text is absent
\* (NULL format), empty or made of newlines only, has rowMaxTextLen equal to
\* max(1, length of the longest newline-delimited segment of its stored
\* content); so every column of a printed table is at least 1 character wide.
C12_RowMaxAtLeastOne ==
  /\ Appended
     => heap[tail].rowMaxTextLen = Max(1, LongestSegment(StoredText(heap[tail])))
  /\ PrintSucceeded => \A j \in ColumnsOf : W(j) >= 1

----------------------------------------------------------------------------
(* C13 *)

\* the cells of a table in list order, each as its content and its prefix
RECURSIVE CellsFrom(_, _)
CellsFrom(hp, pEntry) ==
  IF pEntry = NULL
    THEN <<>>
    ELSE <<[text |-> hp[pEntry].text, ansiSeq |-> hp[pEntry].ansiSeq]>>
         \o CellsFrom(hp, hp[pEntry].nextEntry)

\* C13: every TextTableAdd call that returns true increases the entry count
\* by exactly one and places the new cell last, leaving order, content and
\* prefix of the earlier cells unchanged; calls with a NULL format, an empty
\* text, a NULL prefix or an over-long prefix return true (no allocation
\* failing) and append one cell, with empty content when the text is absent
\* or empty.
C13_AddAppendsOne ==
  [][(call'.op = "Add" /\ ~call'.crashed)
     => /\ call'.ret = TRUE
           => /\ entries' = entries + 1
              /\ Len(CellsFrom(heap', head')) = entries'
              /\ SubSeq(CellsFrom(heap', head'), 1, entries) = CellsFrom(heap, head)
              /\ heap'[tail'].nextEntry = NULL
              /\ CellsFrom(heap', head')[entries'].text = heap'[tail'].text
        /\ (/\ ~call'.tableNull /\ call'.failAt = "none"
            /\ \/ call'.format = NULLP
               \/ call'.format = CStr(<<>>)
               \/ call'.ansiSeq = NULLP
               \/ strlen(call'.ansiSeq) > TEXT_TABLE_MAX_ANSI_SEQ_LEN)
           => /\ call'.ret = TRUE
              /\ (call'.format = NULLP \/ call'.format = CStr(<<>>))
                 => heap'[tail'].text = NULLP /\ heap'[tail'].textLen = 0]_vars

\* a third cell without text and with an over-long prefix was appended
\* after two cells with text
C13_Witness ==
  /\ Appended /\ entries = 3
  /\ call.format = NULLP
  /\ call.ansiSeq # NULLP /\ strlen(call.ansiSeq) > TEXT_TABLE_MAX_ANSI_SEQ_LEN
  /\ heap[tail].text = NULLP
  /\ Len(CellsFrom(heap, head)) = 3
  /\ CellsFrom(heap, head)[1].text # NULLP /\ CellsFrom(heap, head)[2].text # NULLP

----------------------------------------------------------------------------
(* C14 *)

\* C14: whenever TextTableAdd returns false (NULL table, entry allocation
\* failed, or text allocation failed) the entry is not added: entry count,
\* head, tail and the sequence of cells are as before the call.
C14_FailedAddChangesNothing ==
  [][(call'.op = "Add" /\ ~call'.crashed /\ call'.ret = FALSE)
     => /\ entries' = entries
        /\ head' = head
        /\ tail' = tail
        /\ CellsFrom(heap', head') = CellsFrom(heap, head)]_vars

----------------------------------------------------------------------------
(* C15 *)

\* the last call was a TextTableAdd in which the allocation named by failAt
\* was made and failed
AddAllocationFailed ==
  /\ call.op = "Add" /\ ~call.tableNull
  /\ \/ call.failAt = "entry"
     \/ /\ call.failAt \in {"ansiSeq", "text"}
        /\ call.format # NULLP /\ strlen(call.format) > 0
        /\ call.failAt = "ansiSeq" => AnsiSeqAllocated(call.ansiSeq)

\* the last call was a TextTablePrint in which a scratch allocation failed
PrintAllocationFailed ==
  /\ call.op = "Print" /\ call.failAt # 0
  /\ ~ArgsRejected(call.tableNull, call.sinkNull, call.posX, call.columns)

\* C15: every allocation failure is surfaced as a false return and never as
\* a crash: when one allocation of TextTableAdd (entry, ansiSeq copy, text)
\* or of TextTablePrint (pColumn, rowBuf, gridBuf, headBuf) fails, the call
\* returns false without reading or writing through the NULL pointer.
C15_AllocationFailureReturnsFalse ==
  /\ AddAllocationFailed
     => /\ ~WritesThroughNull(call.tableNull, call.ansiSeq, call.format, call.failAt)
        /\ ~call.crashed
        /\ call.ret = FALSE
  /\ PrintAllocationFailed => call.ret = FALSE /\ out = <<>>

----------------------------------------------------------------------------
(* C16 *)

\* C16: on every return path of TextTablePrint (success, rejected arguments,
\* failure of the 1st, 2nd, 3rd or 4th scratch allocation) every scratch
\* buffer the call allocated has been released: no scratch allocation is
\* live when the call returns.
C16_NoScratchLeftAtReturn ==
  PrintReturned => call.scratch = 0

----------------------------------------------------------------------------
(* C17 *)

\* the allocated blocks of the cells of a table: each entry, and its text
\* and its ANSI sequence where it has one
BlocksOf(hp) ==
  {[block |-> "entry", of |-> p] : p \in 1..Len(hp)}
  \cup {[block |-> "text", of |-> p] : p \in {q \in 1..Len(hp) : hp[q].text # NULLP}}
  \cup {[block |-> "ansiSeq", of |-> p] : p \in {q \in 1..Len(hp) : hp[q].ansiSeq # NULLP}}

\* C17: TextTableFree on an initialized table releases every cell (entry,
\* text and ANSI sequence) exactly once and leaves entries = 0 with head and
\* tail NULL; a Free of an empty table changes nothing and releases
\* nothing, TextTableFree(NULL) is a no-op, and TextTableInit after a Free
\* yields zero entries and the default configuration whatever the
\* configuration was before.
C17_FreeReleasesAll ==
  [][/\ (call'.op = "Free" /\ ~call'.tableNull)
        => /\ {call'.freed[n] : n \in 1..Len(call'.freed)} = BlocksOf(heap)
           /\ Len(call'.freed) = Cardinality(BlocksOf(heap))
           /\ entries' = 0 /\ head' = NULL /\ tail' = NULL /\ heap' = <<>>
           /\ cfg' = cfg
           /\ entries = 0 => call'.freed = <<>> /\ head' = head /\ tail' = tail
     /\ (call'.op = "Free" /\ call'.tableNull)
        => call'.freed = <<>> /\ UNCHANGED <<head, tail, entries, heap, cfg>>
     /\ (call'.op = "Init" /\ ~call'.tableNull)
        => /\ call'.ret = TRUE
           /\ entries' = 0 /\ head' = NULL /\ tail' = NULL
           /\ cfg' = DefaultConfig]_vars

\* a Free has released three cells, two with text and ANSI sequence and one
\* without either, of a table whose configuration had been changed
C17_Witness ==
  /\ call.op = "Free" /\ ~call.tableNull
  /\ Len(call.freed) = 7
  /\ Cardinality({n \in 1..Len(call.freed) : call.freed[n].block = "ansiSeq"}) = 2
  /\ entries = 0 /\ head = NULL /\ tail = NULL
  /\ cfg = CustomConfig

----------------------------------------------------------------------------
(* C18 *)

Compact == call.tabStyle = TABSTYLE_COMACT

\* the characters of a content line that stand, for column j, before the
\* content region of the cell e and behind it
LeadLen(e, j) ==
  (IF j = 0 THEN (IF Compact THEN 0 ELSE 1 + Pad) ELSE Pad)
  + (IF e.ansiSeq # NULLP /\ W(j) > 0 THEN Len(Chars(e.ansiSeq)) ELSE 0)

TrailLen(e, j) ==
  (IF e.ansiSeq # NULLP THEN 4 ELSE 0)
  + Pad + (IF ~Compact /\ j < call.columns - 1 THEN 1 ELSE 0)

\* the index (from 0) in a content line of row i at which the content
\* region of column j starts
RECURSIVE RegionStart(_, _)
RegionStart(i, j) ==
  (IF j = 0
     THEN call.posX
     ELSE RegionStart(i, j - 1) + W(j - 1) + TrailLen(CellOf(i, j - 1), j - 1))
  + LeadLen(CellOf(i, j), j)

RegionOn(n, j) ==
  SubSeq(out[n].str, RegionStart(out[n].row, j) + 1, RegionStart(out[n].row, j) + W(j))

\* C18: on the s-th physical line of row i the content region of column j
\* holds exactly the s-th newline-delimited segment of the stored content
\* of the cell at flat index i * columns + j, left-aligned and padded with
\* spaces to width w_j, and only spaces when the cell has fewer than s + 1
\* segments or no content; every segment of every cell gets its line, no
\* newline character is written to a line, and the lines come in row order
\* and, within a row, in segment order.
C18_RegionHoldsSegment ==
  PrintSucceeded
  => /\ \A n \in 1..Len(out) : IsContent(out[n]) =>
          /\ \A j \in ColumnsOf :
               RegionOn(n, j) = Region(CellOf(out[n].row, j), SubRow(n), W(j))
          /\ \A k \in 1..Len(out[n].str) : out[n].str[k] # NL
          /\ \A m \in 1..(n - 1) : IsContent(out[m]) => out[m].row <= out[n].row
     /\ \A i \in RowsRange : \A j \in ColumnsOf :
          Len(Split(StoredText(CellOf(i, j)))) <= Cardinality(LinesOfRow(i))

\* two rows of one column: "a\nbb\nccc" over three lines, then a styled "a"
C18_Witness ==
  /\ PrintSucceeded /\ entries = 2 /\ call.columns = 1 /\ call.posX = 1
  /\ StoredText(heap[head]) = <<"a", NL, "b", "b", NL, "c", "c", "c">>
  /\ heap[tail].ansiSeq # NULLP
  /\ \E n \in 1..Len(out) :
       /\ IsContent(out[n]) /\ out[n].row = 0 /\ SubRow(n) = 1
       /\ RegionOn(n, 0) = <<"b", "b", SP>>
  /\ \E n \in 1..Len(out) :
       /\ IsContent(out[n]) /\ out[n].row = 1
       /\ RegionOn(n, 0) = <<"a", SP, SP>>

----------------------------------------------------------------------------
(* C19 *)

\* the boundary character of the content lines of row i
BoundaryOf(i) ==
  IF i = 0 /\ call.tabStyle \in {TABSTYLE_REGULAR_HEAD_ON, TABSTYLE_SEPARATED_HEAD_ON}
    THEN cfg.charHeadBoundary
    ELSE cfg.charGridBoundary

\* the index (from 0) behind the content region of column j and the closing
\* sequence of its cell
RegionEnd(i, j) ==
  RegionStart(i, j) + W(j) + (IF CellOf(i, j).ansiSeq # NULLP THEN 4 ELSE 0)

\* the separator is a character that is neither a boundary character nor
\* part of a text or an ANSI sequence of the modelled callers
SeparatorDistinct == cfg = CustomConfig

\* C19: on every content line of a non-compact style the character at index
\* posX and the last character are both charHeadBoundary when the line
\* belongs to row 0 of a style with header, and both charGridBoundary
\* otherwise; adjacent columns are separated by exactly one
\* charGridSeparator on every line of every row, and no separator follows
\* the last column.
C19_BoundariesAndSeparators ==
  (PrintSucceeded /\ ~Compact)
  => \A n \in 1..Len(out) : IsContent(out[n]) =>
       LET l == out[n].str
           i == out[n].row
       IN /\ l[call.posX + 1] = BoundaryOf(i)
          /\ l[Len(l)] = BoundaryOf(i)
          /\ \A j \in ColumnsOf :
               /\ \A k \in 1..Pad : l[RegionEnd(i, j) + k] = SP
               /\ IF j < call.columns - 1
                    THEN l[RegionEnd(i, j) + Pad + 1] = cfg.charGridSeparator
                    ELSE Len(l) = RegionEnd(i, j) + Pad + 1
          /\ SeparatorDistinct
             => Cardinality({k \in 1..Len(l) : l[k] = cfg.charGridSeparator})
                  = call.columns - 1

\* a header style with the caller's characters: row 0 between 'H', row 1
\* between '!', three columns with two ':' on every line
C19_Witness ==
  /\ PrintSucceeded /\ call.tabStyle = TABSTYLE_REGULAR_HEAD_ON
  /\ cfg = CustomConfig /\ entries = 3 /\ call.columns = 3
  /\ \E n \in 1..Len(out) :
       /\ IsContent(out[n]) /\ out[n].row = 0
       /\ out[n].str[call.posX + 1] = "H" /\ out[n].str[Len(out[n].str)] = "H"
       /\ Cardinality({k \in 1..Len(out[n].str) : out[n].str[k] = ":"}) = 2

----------------------------------------------------------------------------
(* C20 *)

\* columns j .. columns - 1 of a content line of row i, sub-row s, with the
\* ANSI sequence of every styled cell before its content region and the
\* closing sequence behind it
RECURSIVE StyledFrom(_, _, _)
StyledFrom(i, s, j) ==
  IF j = call.columns
    THEN IF Compact THEN <<>> ELSE <<BoundaryOf(i)>>
    ELSE LET e == CellOf(i, j)
         IN (IF j = 0 /\ ~Compact THEN <<BoundaryOf(i)>> ELSE <<>>)
            \o Rep(SP, IF j = 0 /\ Compact THEN 0 ELSE Pad)
            \o (IF e.ansiSeq # NULLP THEN Chars(e.ansiSeq) ELSE <<>>)
            \o Region(e, s, W(j))
            \o (IF e.ansiSeq # NULLP THEN <<ESC, "[", "0", "m">> ELSE <<>>)
            \o Rep(SP, Pad)
            \o (IF ~Compact /\ j < call.columns - 1 THEN <<cfg.charGridSeparator>> ELSE <<>>)
            \o StyledFrom(i, s, j + 1)

\* C20: on every physical line of a row each cell with a stored ANSI
\* sequence contributes that sequence immediately before its column's
\* content region and the 4-byte sequence ESC [ 0 m immediately behind the
\* region and before the trailing padding, and a cell without stored
\* sequence contributes neither; so a line holds as many opening as closing
\* sequences, and its length is the unstyled length plus, per styled cell,
\* the length of its sequence plus 4.
C20_PrefixAndReset ==
  PrintSucceeded
  => \A n \in 1..Len(out) : IsContent(out[n]) =>
       out[n].str = Rep(SP, call.posX) \o StyledFrom(out[n].row, SubRow(n), 0)

----------------------------------------------------------------------------
(* C21 *)

\* the last call was a TextTablePrint that allocated and filled its buffers
PrintFilledBuffers ==
  /\ call.op = "Print" /\ call.failAt = 0
  /\ ~ArgsRejected(call.tableNull, call.sinkNull, call.posX, call.columns)

\* C21: every write TextTablePrint makes into rowBuf, gridBuf and headBuf,
\* the terminating NUL included, is at an index strictly below the
\* allocated size rowLen, in every style, for every posX in 0..30, every
\* spacesBetweenBorder and every mix of styled, unstyled, empty and
\* multi-line cells.
C21_WritesBelowRowLen ==
  PrintFilledBuffers => call.written < call.rowLen /\ ~call.crashed

----------------------------------------------------------------------------
(* C22 *)

\* the entries reached from head by 0 .. entries - 1 steps along nextEntry
Visited == {Walk(head, n) : n \in 0..(entries - 1)}

\* C22: after any sequence of Init, Add (succeeding or failing), Print and
\* Free calls the table is a well-formed doubly linked list: head = NULL iff
\* tail = NULL iff entries = 0; following nextEntry from head visits exactly
\* entries distinct cells and ends at tail with tail->nextEntry = NULL;
\* head->prevEntry = NULL; and c->nextEntry->prevEntry = c for every
\* visited cell c that has a successor.
C22_WellFormedList ==
  /\ (head = NULL) <=> (tail = NULL)
  /\ (tail = NULL) <=> (entries = 0)
  /\ entries > 0
     => /\ \A n \in 0..(entries - 1) : Walk(head, n) \in 1..Len(heap)
        /\ Cardinality(Visited) = entries
        /\ Walk(head, entries - 1) = tail
        /\ heap[tail].nextEntry = NULL
        /\ heap[head].prevEntry = NULL
        /\ \A c \in Visited :
             heap[c].nextEntry # NULL => heap[heap[c].nextEntry].prevEntry = c

\* three cells, the second left by an Add whose text allocation failed,
\* after a Print
C22_Witness ==
  /\ PrintSucceeded /\ entries = 3
  /\ Walk(head, 2) = tail /\ heap[heap[head].nextEntry].prevEntry = head
  /\ LET c == heap[heap[head].nextEntry]
     IN c.ansiSeq # NULLP /\ c.text = NULLP /\ c.textLen = 0

----------------------------------------------------------------------------
(* C23 *)

\* C23: in every style and for every number of rows, a single row included,
\* a successful Print never delivers two divider lines one after the other,
\* and in each non-compact style exactly one divider line follows the last
\* content line.
C23_NoAdjacentDividers ==
  PrintSucceeded
  => /\ \A n \in 1..(Len(out) - 1) : ~(IsDivider(out[n]) /\ IsDivider(out[n + 1]))
     /\ ~Compact
        => /\ IsDivider(out[Len(out)])
           /\ Len(out) >= 2 /\ IsContent(out[Len(out) - 1])

====
